---- MODULE Spec2Model ----
(***************************************************************************)
(* Defense monitoring pipeline of apiculture_iot/defense.py: the           *)
(* monitoring loop, the servo sweep with image capture, the upload and     *)
(* reduction of the classifier verdicts, the alert and the sprinkler.      *)
(* Also the needle_servo:angle and camera:video handlers of the            *)
(* device-control server, apiculture_iot/harvest.py.                       *)
(***************************************************************************)
EXTENDS Integers, Sequences, FiniteSets, TLC

\* ------------------------------------------------------------------ bounds
\* number of monitoring cycles the loop is followed for
MaxChecks == 2
\* confidence levels a classifier response may carry: 0..MaxConf
MaxConf == 2
\* sweep configurations explored by SpecCfg: 0 <= min <= max <= CfgMaxAngle
CfgMaxAngle == 12
CfgMaxMin == 1
\* sample counts explored by SpecCfg: 1..CfgMaxPoints
CfgMaxPoints == 6
\* camera:video handler threads that may run at once
MaxHandlers == 2
\* start requests that get past the recording test
MaxRecordings == 2
\* needle angles tried: multiples of 15 degrees up to 15 * MaxAngleSteps
MaxAngleSteps == 13

\* ------------------------------------------------------- program constants
SERVO_MIN_ANGLE == 0
SERVO_MAX_ANGLE == 180
NUM_CAPTURE_POINTS == 5

\* the shipped sweep configuration
ShippedCfg == [min |-> SERVO_MIN_ANGLE, max |-> SERVO_MAX_ANGLE, n |-> NUM_CAPTURE_POINTS]

\* response_with_threat = None
None == [none |-> TRUE]

\* ---------------------------------------------------------- sweep geometry
\* SWEEP_STEP = (MAX - MIN) // (N - 1) if N > 1 else 0
SWEEP_STEP(c) == IF c.n > 1 THEN (c.max - c.min) \div (c.n - 1) ELSE 0

\* round(s / 5) for an integer s >= 0 (s/5 never ends in .5, so no tie)
Round5(s) == (s + 2) \div 5

\* len(range(a, b, s)) of Python, s # 0
RangeLen(a, b, s) ==
    IF s > 0 THEN (IF b > a THEN (b - a + s - 1) \div s ELSE 0)
             ELSE (IF a > b THEN (a - b + (0 - s) - 1) \div (0 - s) ELSE 0)

\* list(range(a, b, s)) of Python, s # 0
PyRange(a, b, s) == [i \in 1..RangeLen(a, b, s) |-> a + (i - 1) * s]

\* range() raises ValueError for a zero step: the fine step is computed first
RangeRaises(c) == Round5(SWEEP_STEP(c)) = 0 \/ SWEEP_STEP(c) = 0

\* angles: every position the servo is driven through
Angles(c, forward) ==
    IF forward THEN PyRange(c.min, c.max + 1, Round5(SWEEP_STEP(c)))
               ELSE PyRange(c.max, c.min - 1, 0 - Round5(SWEEP_STEP(c)))

\* angles_to_capture: the positions at which an image is taken
AnglesToCapture(c, forward) ==
    IF forward THEN PyRange(c.min, c.max + 1, SWEEP_STEP(c))
               ELSE PyRange(c.max, c.min - 1, 0 - SWEEP_STEP(c))

InSeq(x, s) == \E i \in 1..Len(s) : s[i] = x

\* simulated_angle of the i-th fallback image (i from 0)
SimulatedAngle(c, forward, i) ==
    IF forward THEN c.min + i * SWEEP_STEP(c) ELSE c.max - i * SWEEP_STEP(c)

FallbackHasNext_short(i) == i < NUM_CAPTURE_POINTS - 1

\* for i in range(NUM_CAPTURE_POINTS)
FallbackHasNext(i) == i < NUM_CAPTURE_POINTS

SweepPath_nocheck(cam, servo) == IF ~cam THEN "fallback" ELSE "live"

\* which branch sweep_servo_and_capture takes
SweepPath(cam, servo) ==
    IF ~cam THEN "fallback" ELSE IF ~servo THEN "unavailable" ELSE "live"

\* ------------------------------------------------------ classifier verdicts
\* what one upload can come back with; run_sprinkler as it arrives in the
\* JSON body: a string, a JSON boolean (bTrue / bFalse) or no such key (absent)
Responses ==
    [kind : {"transport", "status", "unparseable"}, run_sprinkler : {"N"}, confidence : {0}]
    \cup [kind : {"json"}, run_sprinkler : {"N", "bFalse", "absent"}, confidence : {0}]
    \cup [kind : {"json"}, run_sprinkler : {"Y", "y", "bTrue"}, confidence : 0..MaxConf]

\* response_json.get('run_sprinkler', 'N')
GetRunSprinkler(r) == IF r.run_sprinkler = "absent" THEN "N" ELSE r.run_sprinkler

IsBool(v) == v \in {"bTrue", "bFalse"}

\* str.upper()
Upper(s) == CASE s = "y" -> "Y" [] s = "n" -> "N" [] OTHER -> s

SampleOutcome_lenient(r) ==
    IF r.kind \in {"transport", "status"} THEN "request_error"
    ELSE IF r.kind = "unparseable" THEN "no_threat"
    ELSE IF IsBool(GetRunSprinkler(r)) THEN "error"
    ELSE IF Upper(GetRunSprinkler(r)) = "Y" THEN "threat"
    ELSE "no_threat"

\* how the try block of the upload loop ends for one response:
\*   request_error : requests.post or raise_for_status raised
\*   error         : response.json() raised, or .upper() on a boolean raised
\*   threat / no_threat : the run_sprinkler test was evaluated
SampleOutcome(r) ==
    IF r.kind \in {"transport", "status"} THEN "request_error"
    ELSE IF r.kind = "unparseable" THEN "error"
    ELSE IF IsBool(GetRunSprinkler(r)) THEN "error"
    ELSE IF Upper(GetRunSprinkler(r)) = "Y" THEN "threat"
    ELSE "no_threat"

\* response_json of the i-th sample, as far as the reduction and the alert
\* read it
ResponseJson(r, i) == [confidence |-> r.confidence, sample |-> i]

SelectThreat_first(best, r) == IF best = None THEN r ELSE best

SelectThreat_latest(best, r) ==
    IF best = None THEN r
    ELSE IF r.confidence >= best.confidence THEN r
    ELSE best

\* the reduction: the first positive verdict, replaced by a strictly more
\* confident one
SelectThreat(best, r) ==
    IF best = None THEN r
    ELSE IF r.confidence > best.confidence THEN r
    ELSE best

CountThreat_selected(n, best, r) ==
    IF best = None THEN n + 1
    ELSE IF r.confidence > best.confidence THEN n + 1
    ELSE n

\* defense_stat['total_threats'] += 1, after the reduction of a positive
\* response r against the verdict held so far
CountThreat(n, best, r) == n + 1

\* both except clauses of the upload loop: all_success = False
OnUploadError(ok) == FALSE

CleanupImage_onsuccess(d, f, o) == IF o \in {"threat", "no_threat"} THEN d \ {f} ELSE d

\* finally: os.remove(filepath) if it exists, whatever the outcome o
CleanupImage(d, f, o) == d \ {f}

NextFile_break(i, o, n) == IF o = "threat" THEN n + 1 ELSE i + 1

NextFile_abort(i, o, n) == IF o \in {"request_error", "error"} THEN n + 1 ELSE i + 1

\* the for loop goes on to the next of the n files after every outcome o
NextFile(i, o, n) == i + 1

OnCycleException_uncaught == "exit"

\* where an exception that leaves the cycle's code lands: the loop body is
\* one try block with except Exception
OnCycleException == "loop_except"

\* ------------------------------------------------------------------- state
VARIABLES
    pc,                       \* where the loop thread is
    cfg,                      \* SERVO_MIN_ANGLE, SERVO_MAX_ANGLE, NUM_CAPTURE_POINTS
    camera_available,         \* camera_available or camera
    gpio_available,
    sprinkler_available,
    camera_servo_available,
    fallback_library,         \* images/bee_predators: missing, empty or stocked
    defense_stat,
    sweep_direction_forward,
    sprinkler_pin,            \* level of SPRINKLER_PIN
    disk,                     \* files in IMAGE_PATH
    \* sweep_servo_and_capture
    captured_files, idx, pwm, camera_running, sweep_success,
    \* analyze_captured_images
    fi, any_threat, all_success, response_with_threat,
    \* capture_and_analyze_sweep / execute_defense_monitoring
    success, should_run_sprinkler, sprinkler_result,
    \* what happened in the current cycle (observation only)
    obs,
    \* whether obs also follows the single samples and the alert payload
    watch,
    \* harvest.py, the device-control server: its handlers run one thread each
    needle_servo_state,       \* angle and mode
    needle_request,           \* data of the needle_servo:angle event being answered
    needle_response,          \* what the handler emitted for it
    camera_state,             \* camera_state['recording']
    recorder,                 \* the camera itself: recording or not, and which recording
    handlers,                 \* camera:video handler threads and where each one is
    timers,                   \* auto_stop_video threads, by the recording they belong to
    video_obs                 \* what the camera was asked to do (observation only)

vars == <<pc, cfg, camera_available, gpio_available, sprinkler_available,
          camera_servo_available, fallback_library, defense_stat,
          sweep_direction_forward, sprinkler_pin, disk, captured_files, idx, pwm,
          camera_running, sweep_success, fi, any_threat, all_success,
          response_with_threat, success, should_run_sprinkler, sprinkler_result, obs,
          watch, needle_servo_state, needle_request, needle_response, camera_state,
          recorder, handlers, timers, video_obs>>

\* the state of defense.py
defense == <<pc, cfg, camera_available, gpio_available, sprinkler_available,
             camera_servo_available, fallback_library, watch, defense_stat,
             sweep_direction_forward, sprinkler_pin, disk, captured_files, idx, pwm,
             camera_running, sweep_success, fi, any_threat, all_success,
             response_with_threat, success, should_run_sprinkler, sprinkler_result, obs>>

needle == <<needle_servo_state, needle_request, needle_response>>

video == <<camera_state, recorder, handlers, timers, video_obs>>

\* what the monitoring loop of defense.py never writes
hardware == <<cfg, camera_available, gpio_available, sprinkler_available,
              camera_servo_available, fallback_library, watch, needle, video>>

sweep_locals == <<captured_files, idx, pwm, camera_running, sweep_success>>

analysis_locals == <<fi, any_threat, all_success, response_with_threat>>

loop_locals == <<success, should_run_sprinkler, sprinkler_result>>

\* observations of one cycle, cleared when the next cycle starts
NoObs ==
    [path |-> "none",          \* branch taken by sweep_servo_and_capture
     device_fault |-> FALSE,   \* a device call raised during the sweep
     servo_cmds |-> 0,         \* PWM commands issued
     capture_ok |-> FALSE,     \* sweep+capture succeeded
     sweep_returned |-> FALSE, \* sweep_servo_and_capture returned to its caller
     checks_before |-> 0,      \* total_checks before the cycle began
     sleeps |-> 0,             \* interval sleeps that have elapsed since the start
     threat_cycles |-> 0,      \* cycles so far in which a positive verdict was seen
     samples |-> 0,            \* passes of the upload loop's body
     uploads |-> 0,            \* requests.post calls to the image endpoint
     positives |-> 0,          \* verdicts that passed the run_sprinkler test
     pos_max |-> 0 - 1,        \* greatest confidence among them
     first_max |-> 0,          \* first sample whose positive verdict has pos_max
     pos_low |-> FALSE,        \* a positive verdict below pos_max was seen
     fail_seen |-> FALSE,      \* a transport failure or error status was seen
     pos_after_fail |-> 0 - 1, \* greatest confidence of a positive after it
     run_sprinkler |-> "none", \* the field as read from the response just analysed
     kind |-> "none",          \* how the response just analysed came back
     analysed |-> FALSE,       \* the upload loop ran to its end
     alert_posts |-> 0,        \* POSTs to the alert endpoint
     alert_error |-> FALSE,    \* composing or posting the alert raised
     alert_confidence |-> 0 - 1, \* confidence written into the alert message
     alert_raised_at |-> "none", \* "lookup", "event" or "post": what raised
     \* locals of analyze_captured_images while the alert is being composed,
     \* gone when the function returns or an exception leaves it
     found |-> {},             \* the records the lookups returned
     omitted |-> "none",       \* optional field the selected verdict lacks
     event |-> None,           \* the payload handed to requests.post
     toggles |-> 0,            \* times the direction flag was flipped
     sprinkler_calls |-> 0,    \* calls of activate_sprinkler
     late_gpio |-> 0,          \* GPIO calls made after GPIO.cleanup() released the pins
     activations_before |-> 0, \* total_sprinkler_activation at cycle start
     threats_before |-> 0]     \* total_threats at cycle start

Max(a, b) == IF a > b THEN a ELSE b

\* a detail that is recorded under watch only
Watched(v, default) == IF watch THEN v ELSE default

\* a GPIO call raises when the channel was never set up, and may raise otherwise
GpioOutcomes == IF gpio_available THEN {"ok", "raises"} ELSE {"raises"}

\* harvest.py after import: the device states as declared, no request in
\* flight, no timer thread
HarvestInit ==
    /\ needle_servo_state = [angle |-> 0, mode |-> "stopped"]
    /\ needle_request = [given |-> FALSE, angle |-> 0]
    /\ needle_response = "none"
    /\ camera_state = [recording |-> FALSE]
    /\ recorder = [active |-> FALSE, session |-> 0]
    /\ handlers = [h \in 1..MaxHandlers |-> [pc |-> "idle", rec |-> 0]]
    /\ timers = [r \in 1..MaxRecordings |-> "none"]
    /\ video_obs = [starts |-> 0, double_start |-> FALSE, stop_idle |-> FALSE,
                    wrong_stop |-> FALSE, reply |-> "none"]

\* startup: the result of the imports and of the hardware initialisation
HardwareInit ==
    /\ camera_available \in BOOLEAN
    /\ \E gpio_import \in BOOLEAN, gpio_setup \in BOOLEAN :
          /\ gpio_available = (gpio_import /\ gpio_setup)
          /\ sprinkler_available = gpio_import
          /\ camera_servo_available = gpio_import
    /\ fallback_library \in (IF camera_available THEN {"stocked"}
                                                 ELSE {"missing", "empty", "stocked"})

FrameInit ==
    /\ captured_files = <<>>
    /\ idx = 0
    /\ pwm = "none"
    /\ camera_running = FALSE
    /\ sweep_success = FALSE
    /\ fi = 1
    /\ any_threat = FALSE
    /\ all_success = TRUE
    /\ response_with_threat = None
    /\ success = FALSE
    /\ should_run_sprinkler = FALSE
    /\ sprinkler_result = "none"

LocalsInit ==
    /\ FrameInit
    /\ obs = NoObs

LoopEntry_nosleep == "begin"

\* while True: try: time.sleep(DEFENSE_CHECK_INTERVAL) is where every pass of
\* the loop begins
LoopEntry == "sleep"

Init ==
    /\ pc = LoopEntry
    /\ cfg = ShippedCfg
    /\ HardwareInit
    /\ defense_stat = [total_checks |-> 0, total_threats |-> 0,
                       total_sprinkler_activation |-> 0]
    /\ sweep_direction_forward = TRUE
    /\ sprinkler_pin = "LOW"
    /\ disk = {}
    /\ LocalsInit
    /\ watch = FALSE
    /\ HarvestInit

\* the file captured at an angle in the current cycle (the name carries the
\* timestamp and the angle)
FileAt(angle) == <<defense_stat.total_checks, angle>>


\* ------------------------------------------------ execute_defense_monitoring
CountCheck_never(n) == n

\* defense_stat['total_checks'] += 1
CountCheck(n) == n + 1

\* time.sleep(DEFENSE_CHECK_INTERVAL) returns
IntervalSleep ==
    /\ pc = "sleep"
    /\ defense_stat.total_checks < MaxChecks
    /\ obs' = [obs EXCEPT !.sleeps = @ + 1]
    /\ pc' = "begin"
    /\ UNCHANGED <<hardware, defense_stat, sweep_direction_forward, sprinkler_pin, disk,
                   sweep_locals, analysis_locals, loop_locals>>

\* total_checks += 1; the cycle begins
StartCycle ==
    /\ pc = "begin"
    /\ defense_stat.total_checks < MaxChecks
    /\ defense_stat' = [defense_stat EXCEPT !.total_checks = CountCheck(@)]
    /\ obs' = [NoObs EXCEPT !.sleeps = obs.sleeps,
                            !.threat_cycles = obs.threat_cycles,
                            !.checks_before = defense_stat.total_checks,
                            !.activations_before = defense_stat.total_sprinkler_activation,
                            !.threats_before = defense_stat.total_threats]
    /\ captured_files' = <<>>
    /\ idx' = 0
    /\ pwm' = "none"
    /\ sweep_success' = FALSE
    /\ fi' = 1
    /\ any_threat' = FALSE
    /\ all_success' = TRUE
    /\ response_with_threat' = None
    /\ success' = FALSE
    /\ should_run_sprinkler' = FALSE
    /\ sprinkler_result' = "none"
    /\ pc' = "sweep"
    /\ UNCHANGED <<hardware, sweep_direction_forward, sprinkler_pin, disk, camera_running>>

\* --------------------------------------------------- sweep_servo_and_capture
\* camera unavailable: the fallback library is looked up
SweepFallback ==
    /\ pc = "sweep"
    /\ SweepPath(camera_available, camera_servo_available) = "fallback"
    /\ obs' = [obs EXCEPT !.path = "fallback"]
    /\ IF fallback_library = "stocked"
       THEN /\ idx' = 0
            /\ pc' = "fallback_copy"
            /\ UNCHANGED sweep_success
       ELSE /\ sweep_success' = FALSE
            /\ pc' = "sweep_ret"
            /\ UNCHANGED idx
    /\ UNCHANGED <<hardware, defense_stat, sweep_direction_forward, sprinkler_pin, disk,
                   captured_files, pwm, camera_running, analysis_locals, loop_locals>>

\* one pass of the fallback loop (shutil.copy may raise: nothing catches it
\* before the monitoring loop), or its end (return True)
FallbackCopy ==
    /\ pc = "fallback_copy"
    /\ \E copy \in {"ok", "raises"} :
          IF FallbackHasNext(idx)
          THEN IF copy = "ok"
               THEN /\ disk' = disk \cup {FileAt(SimulatedAngle(cfg, sweep_direction_forward, idx))}
                    /\ captured_files' = Append(captured_files,
                                 FileAt(SimulatedAngle(cfg, sweep_direction_forward, idx)))
                    /\ idx' = idx + 1
                    /\ UNCHANGED <<pc, sweep_success, obs>>
               ELSE /\ obs' = [obs EXCEPT !.device_fault = TRUE]
                    /\ pc' = OnCycleException
                    /\ UNCHANGED <<disk, captured_files, idx, sweep_success>>
          ELSE /\ sweep_success' = TRUE
               /\ pc' = "sweep_ret"
               /\ UNCHANGED <<disk, captured_files, idx, obs>>
    /\ UNCHANGED <<hardware, defense_stat, sweep_direction_forward, sprinkler_pin,
                   pwm, camera_running, analysis_locals, loop_locals>>

\* camera available, servo unavailable: return False, False, []
SweepUnavailable ==
    /\ pc = "sweep"
    /\ SweepPath(camera_available, camera_servo_available) = "unavailable"
    /\ obs' = [obs EXCEPT !.path = "unavailable"]
    /\ sweep_success' = FALSE
    /\ pc' = "sweep_ret"
    /\ UNCHANGED <<hardware, defense_stat, sweep_direction_forward, sprinkler_pin, disk,
                   captured_files, idx, pwm, camera_running, analysis_locals, loop_locals>>

\* live sweep up to the loop: GPIO.PWM, pwm.start, the two range() lists,
\* camera.start
LiveSetup ==
    /\ pc = "sweep"
    /\ SweepPath(camera_available, camera_servo_available) = "live"
    /\ \E create \in GpioOutcomes, step \in {"none", "pwm_start", "camera_start"} :
          IF create = "raises"
          THEN /\ pwm' = "none"
               /\ obs' = [obs EXCEPT !.path = "live", !.device_fault = TRUE]
               /\ pc' = "live_except"
               /\ UNCHANGED <<camera_running, idx>>
          ELSE IF step = "pwm_start"
          THEN /\ pwm' = "created"
               /\ obs' = [obs EXCEPT !.path = "live", !.device_fault = TRUE]
               /\ pc' = "live_except"
               /\ UNCHANGED <<camera_running, idx>>
          ELSE IF RangeRaises(cfg)
          THEN /\ pwm' = "started"
               /\ obs' = [obs EXCEPT !.path = "live"]
               /\ pc' = "live_except"
               /\ UNCHANGED <<camera_running, idx>>
          ELSE IF step = "camera_start"
          THEN /\ pwm' = "started"
               /\ obs' = [obs EXCEPT !.path = "live", !.device_fault = TRUE]
               /\ pc' = "live_except"
               /\ UNCHANGED <<camera_running, idx>>
          ELSE /\ pwm' = "started"
               /\ camera_running' = TRUE
               /\ idx' = 1
               /\ obs' = [obs EXCEPT !.path = "live"]
               /\ pc' = "live_loop"
    /\ UNCHANGED <<hardware, defense_stat, sweep_direction_forward, sprinkler_pin, disk,
                   captured_files, sweep_success, analysis_locals, loop_locals>>

\* one pass of: for i, angle in enumerate(angles)
LiveStep ==
    /\ pc = "live_loop"
    /\ idx <= Len(Angles(cfg, sweep_direction_forward))
    /\ LET angle == Angles(cfg, sweep_direction_forward)[idx] IN
       \E fault \in {"none", "servo", "capture"} :
          IF fault = "servo"
          THEN /\ obs' = [obs EXCEPT !.device_fault = TRUE]
               /\ pc' = "live_except"
               /\ UNCHANGED <<disk, captured_files, idx>>
          ELSE IF ~InSeq(angle, AnglesToCapture(cfg, sweep_direction_forward))
          THEN /\ obs' = [obs EXCEPT !.servo_cmds = @ + 1]
               /\ idx' = idx + 1
               /\ UNCHANGED <<disk, captured_files, pc>>
          ELSE IF fault = "capture"
          THEN /\ obs' = [obs EXCEPT !.servo_cmds = @ + 1, !.device_fault = TRUE]
               /\ pc' = "live_except"
               /\ UNCHANGED <<disk, captured_files, idx>>
          ELSE /\ obs' = [obs EXCEPT !.servo_cmds = @ + 1]
               /\ disk' = disk \cup {FileAt(angle)}
               /\ captured_files' = Append(captured_files, FileAt(angle))
               /\ idx' = idx + 1
               /\ UNCHANGED pc
    /\ UNCHANGED <<hardware, defense_stat, sweep_direction_forward, sprinkler_pin,
                   pwm, camera_running, sweep_success, analysis_locals, loop_locals>>

StopPwm_skipped(channel) == channel

\* finally: if pwm: pwm.stop()
StopPwm(channel) == IF channel = "none" THEN "none" ELSE "stopped"

\* after the loop: camera.stop(), return True (finally: pwm.stop())
LiveFinish ==
    /\ pc = "live_loop"
    /\ idx > Len(Angles(cfg, sweep_direction_forward))
    /\ \E stop \in {"ok", "raises"} :
          IF stop = "ok"
          THEN /\ camera_running' = FALSE
               /\ pwm' = StopPwm(pwm)
               /\ sweep_success' = TRUE
               /\ pc' = "sweep_ret"
               /\ UNCHANGED obs
          ELSE /\ obs' = [obs EXCEPT !.device_fault = TRUE]
               /\ pc' = "live_except"
               /\ UNCHANGED <<camera_running, pwm, sweep_success>>
    /\ UNCHANGED <<hardware, defense_stat, sweep_direction_forward, sprinkler_pin, disk,
                   captured_files, idx, analysis_locals, loop_locals>>

\* except Exception: camera.stop() under try/pass, return False with the
\* files captured so far (finally: pwm.stop() if pwm)
LiveExcept ==
    /\ pc = "live_except"
    /\ \E stop \in {"ok", "raises"} :
          camera_running' = IF stop = "ok" THEN FALSE ELSE camera_running
    /\ pwm' = StopPwm(pwm)
    /\ sweep_success' = FALSE
    /\ pc' = "sweep_ret"
    /\ UNCHANGED <<hardware, defense_stat, sweep_direction_forward, sprinkler_pin, disk,
                   captured_files, idx, analysis_locals, loop_locals, obs>>

\* ------------------------------------------------- capture_and_analyze_sweep
SweepFailed_nofiles(ok, files) == files = <<>>

\* if not sweep_success or not captured_files
SweepFailed(ok, files) == ~ok \/ files = <<>>

\* the test on what sweep_servo_and_capture returned: return False, False, or
\* go on to the analysis
SweepReturn ==
    /\ pc = "sweep_ret"
    /\ IF SweepFailed(sweep_success, captured_files)
       THEN /\ success' = FALSE
            /\ should_run_sprinkler' = FALSE
            /\ pc' = "loop_check"
            /\ obs' = [obs EXCEPT !.capture_ok = sweep_success /\ captured_files # <<>>,
                                  !.sweep_returned = TRUE]
            /\ UNCHANGED analysis_locals
       ELSE /\ obs' = [obs EXCEPT !.capture_ok = sweep_success /\ captured_files # <<>>,
                                  !.sweep_returned = TRUE]
            /\ fi' = 1
            /\ any_threat' = FALSE
            /\ all_success' = TRUE
            /\ response_with_threat' = None
            /\ pc' = "analyze"
            /\ UNCHANGED <<success, should_run_sprinkler>>
    /\ UNCHANGED <<hardware, defense_stat, sweep_direction_forward, sprinkler_pin, disk,
                   sweep_locals, sprinkler_result>>


\* --------------------------------------------------- analyze_captured_images
\* one pass of: for filepath in captured_files (try / except / finally)
AnalyzeSample ==
    /\ pc = "analyze"
    /\ fi <= Len(captured_files)
    /\ LET f == captured_files[fi] IN
       IF f \notin disk
       THEN \* open() raises: no upload, except Exception
            /\ all_success' = OnUploadError(all_success)
            /\ fi' = NextFile(fi, "error", Len(captured_files))
            /\ obs' = [obs EXCEPT !.samples = @ + 1, !.run_sprinkler = "none",
                                  !.kind = "none"]
            /\ UNCHANGED <<any_threat, response_with_threat, defense_stat, disk>>
       ELSE \E r \in Responses :
            LET o == SampleOutcome(r)
                failed == r.kind \in {"transport", "status"}
            IN  /\ IF o = "threat"
                   THEN /\ any_threat' = TRUE
                        /\ response_with_threat' =
                              SelectThreat(response_with_threat, ResponseJson(r, Watched(fi, 0)))
                        /\ defense_stat' = [defense_stat EXCEPT !.total_threats =
                                               CountThreat(@, response_with_threat, r)]
                        /\ UNCHANGED all_success
                   ELSE IF o = "no_threat"
                   THEN UNCHANGED <<any_threat, response_with_threat, defense_stat, all_success>>
                   ELSE /\ all_success' = OnUploadError(all_success)
                        /\ UNCHANGED <<any_threat, response_with_threat, defense_stat>>
                /\ disk' = CleanupImage(disk, f, o)
                /\ fi' = NextFile(fi, o, Len(captured_files))
                /\ obs' = [obs EXCEPT
                      !.samples = @ + 1,
                      !.uploads = @ + 1,
                      !.run_sprinkler = IF r.kind = "json"
                                        THEN Watched(GetRunSprinkler(r), "none")
                                        ELSE "none",
                      !.kind = Watched(r.kind, "none"),
                      !.positives = IF o = "threat" THEN @ + 1 ELSE @,
                      !.threat_cycles = IF o = "threat" /\ obs.positives = 0
                                        THEN @ + 1 ELSE @,
                      !.pos_max = IF o = "threat" THEN Max(@, r.confidence) ELSE @,
                      !.first_max = IF o = "threat" /\ r.confidence > obs.pos_max
                                    THEN Watched(fi, 0) ELSE @,
                      !.pos_low = @ \/ (o = "threat" /\ obs.pos_max >= 0
                                          /\ r.confidence # obs.pos_max),
                      !.fail_seen = @ \/ failed,
                      !.pos_after_fail = IF o = "threat" /\ obs.fail_seen
                                         THEN Max(@, r.confidence) ELSE @]
    /\ UNCHANGED <<pc, hardware, sweep_direction_forward, sprinkler_pin, sweep_locals,
                   loop_locals>>

\* the loop is over: if response_with_threat is not None, the alert is built
AnalyzeDone ==
    /\ pc = "analyze"
    /\ fi > Len(captured_files)
    /\ obs' = [obs EXCEPT !.analysed = TRUE, !.run_sprinkler = "none", !.kind = "none"]
    /\ pc' = IF response_with_threat # None THEN "compose" ELSE "analyze_ret"
    /\ UNCHANGED <<hardware, defense_stat, sweep_direction_forward, sprinkler_pin, disk,
                   sweep_locals, analysis_locals, loop_locals>>

\* ------------------------------------------------------------- the alert
\* what find_one does for one collection: no record, a record without the
\* link to the next collection, a record with it, or the database raising
SensorDocs == {"none", "unlinked", "linked", "raises"}
\* the hive is looked up only through a sensor that names one
HiveDocs(sensor) ==
    IF sensor = "linked" THEN {"none", "unlinked", "linked", "raises"} ELSE {"unqueried"}
\* the farm is looked up only through a hive that names one
FarmDocs(hive) ==
    IF hive = "linked" THEN {"none", "found", "raises"} ELSE {"unqueried"}

\* sensor = find_one(...); if sensor and sensor.get('beehive_id'): hive = ...
\* if hive and hive.get('farm_id'): farm = ...
LookupFound(sensor, hive, farm) ==
    (IF sensor \in {"unlinked", "linked"} THEN {"sensor"} ELSE {})
    \cup (IF sensor = "linked" /\ hive \in {"unlinked", "linked"} THEN {"hive"} ELSE {})
    \cup (IF sensor = "linked" /\ hive = "linked" /\ farm = "found" THEN {"farm"} ELSE {})

LookupRaises(sensor, hive, farm) ==
    \/ sensor = "raises"
    \/ sensor = "linked" /\ hive = "raises"
    \/ sensor = "linked" /\ hive = "linked" /\ farm = "raises"

LookupContext ==
    /\ pc = "compose"
    /\ \E sensor \in SensorDocs : \E hive \in HiveDocs(sensor) : \E farm \in FarmDocs(hive) :
          IF LookupRaises(sensor, hive, farm)
          THEN /\ obs' = [obs EXCEPT !.alert_error = TRUE, !.alert_raised_at = "lookup"]
               /\ pc' = OnCycleException
          ELSE /\ obs' = [obs EXCEPT !.found = Watched(LookupFound(sensor, hive, farm), {})]
               /\ pc' = "event"
    /\ UNCHANGED <<hardware, defense_stat, sweep_direction_forward, sprinkler_pin, disk,
                   sweep_locals, analysis_locals, loop_locals>>

\* the optional field the selected verdict comes without: the predator
\* label, the description inside details, the details object, the image id
Omissions == {"none", "predator", "description", "details", "imageId"}

\* .get('predator_analysis').get('details').get("description"): .get on the
\* None that a missing details object yields raises AttributeError
EventRaises(omitted) == omitted = "details"

\* requests.post(ALERT_API_URL, json=event): no timeout argument (the
\* upload passes timeout=30, so a silent server is a "transport" response)
ALERT_TIMEOUT == None

\* a call to a server that never answers: it raises when the timeout
\* expires, and without a timeout it does not return
OnSilentServer(timeout) == IF timeout = None THEN "hangs" ELSE "raises"

\* what requests.post(ALERT_API_URL) does, when the event gets that far
PostOutcomes(omitted) ==
    IF EventRaises(omitted) THEN {"unreached"}
    ELSE {"ok", "bad_status", "raises", OnSilentServer(ALERT_TIMEOUT)}

ContextFields_nested(found) ==
    (IF "sensor" \in found /\ "hive" \in found THEN {"sensorName"} ELSE {})
    \cup (IF "hive" \in found /\ "farm" \in found THEN {"beehiveName"} ELSE {})
    \cup (IF "farm" \in found THEN {"farmName"} ELSE {})

\* if sensor: event["sensorName"] / if hive: event["beehiveName"] /
\* if farm: event["farmName"]
ContextFields(found) ==
    (IF "sensor" \in found THEN {"sensorName"} ELSE {})
    \cup (IF "hive" \in found THEN {"beehiveName"} ELSE {})
    \cup (IF "farm" \in found THEN {"farmName"} ELSE {})

\* event = {...}: the label or "unknown predator", the confidence, the image
\* id or None, the description or None, then the context names
BuildEvent(response, omitted, found) ==
    [predator_type |-> IF omitted = "predator" THEN "unknown predator" ELSE "label",
     confidence |-> response.confidence,
     imageId |-> IF omitted = "imageId" THEN "None" ELSE "id",
     predatorDetectionMethod |-> IF omitted = "description" THEN "None" ELSE "text",
     names |-> ContextFields(found)]

\* the event and requests.post(ALERT_API_URL, json=event): nothing here is
\* caught, so a raising expression or POST leaves analyze_captured_images.
\* The shape of the selected verdict is read here for the first time.
ComposeAlert ==
    /\ pc = "event"
    /\ \E omitted \in Omissions : \E post \in PostOutcomes(omitted) :
          IF EventRaises(omitted)
          THEN /\ obs' = [obs EXCEPT !.alert_error = TRUE, !.alert_raised_at = "event",
                             !.found = {}]
               /\ pc' = OnCycleException
          ELSE LET ev == BuildEvent(response_with_threat, omitted, obs.found)
               IN IF post = "raises"
                  THEN /\ obs' = [obs EXCEPT !.alert_error = TRUE,
                                     !.alert_raised_at = "post",
                                     !.alert_posts = @ + 1,
                                     !.alert_confidence = ev.confidence,
                                     !.found = {}]
                       /\ pc' = OnCycleException
                  ELSE IF post = "hangs"
                  THEN /\ obs' = [obs EXCEPT !.alert_posts = @ + 1,
                                     !.alert_confidence = ev.confidence,
                                     !.found = {}]
                       /\ pc' = "post_wait"
                  ELSE /\ obs' = [obs EXCEPT !.alert_posts = @ + 1,
                                     !.alert_confidence = ev.confidence,
                                     !.omitted = Watched(omitted, "none"),
                                     !.event = Watched(ev, None)]
                       /\ pc' = "analyze_ret"
    /\ UNCHANGED <<hardware, defense_stat, sweep_direction_forward, sprinkler_pin, disk,
                   sweep_locals, analysis_locals, loop_locals>>

\* back in capture_and_analyze_sweep: the flag is flipped, the pair returned
ToggleDirection ==
    /\ pc = "analyze_ret"
    /\ sweep_direction_forward' = ~sweep_direction_forward
    /\ obs' = [obs EXCEPT !.toggles = @ + 1, !.found = {}, !.omitted = "none",
                          !.event = None]
    /\ success' = all_success
    /\ should_run_sprinkler' = any_threat
    /\ pc' = "loop_check"
    /\ UNCHANGED <<hardware, defense_stat, sprinkler_pin, disk, sweep_locals,
                   analysis_locals, sprinkler_result>>

LoopBranch_always(ok, run) == IF ~ok THEN LoopEntry ELSE "sprinkler"

\* if not success: continue / if should_run_sprinkler: activate_sprinkler()
LoopBranch(ok, run) ==
    IF ~ok THEN LoopEntry ELSE IF run THEN "sprinkler" ELSE LoopEntry

LoopCheck ==
    /\ pc = "loop_check"
    /\ pc' = LoopBranch(success, should_run_sprinkler)
    /\ UNCHANGED <<hardware, defense_stat, sweep_direction_forward, sprinkler_pin, disk,
                   sweep_locals, analysis_locals, loop_locals, obs>>

\* except Exception at the loop boundary: logged, next iteration
LoopExcept ==
    /\ pc = "loop_except"
    /\ pc' = LoopEntry
    /\ UNCHANGED <<hardware, defense_stat, sweep_direction_forward, sprinkler_pin, disk,
                   sweep_locals, analysis_locals, loop_locals, obs>>

\* -------------------------------------------------------- activate_sprinkler
SprinklerRefused_never(available) == FALSE

\* if not sprinkler_available: return False
SprinklerRefused(available) == ~available

CountActivation_perthreat(n, positives) == n + positives

\* defense_stat['total_sprinkler_activation'] += 1, once in a call, however
\* many positive verdicts the cycle has seen
CountActivation(n, positives) == n + 1

\* availability test, GPIO.output(HIGH), total_sprinkler_activation += 1
SprinklerOn ==
    /\ pc = "sprinkler"
    /\ IF SprinklerRefused(sprinkler_available)
       THEN /\ sprinkler_result' = "False"
            /\ pc' = "sprinkler_ret"
            /\ UNCHANGED <<sprinkler_pin, defense_stat>>
       ELSE \E out \in GpioOutcomes :
            IF out = "ok"
            THEN /\ sprinkler_pin' = "HIGH"
                 /\ defense_stat' = [defense_stat EXCEPT !.total_sprinkler_activation =
                                        CountActivation(@, obs.positives)]
                 /\ pc' = "sprinkler_hold"
                 /\ UNCHANGED sprinkler_result
            ELSE /\ pc' = "sprinkler_except"
                 /\ UNCHANGED <<sprinkler_pin, defense_stat, sprinkler_result>>
    /\ obs' = [obs EXCEPT !.sprinkler_calls = @ + 1]
    /\ UNCHANGED <<hardware, sweep_direction_forward, disk, sweep_locals, analysis_locals,
                   success, should_run_sprinkler>>

\* time.sleep(WATER_SPRINKLER_DURATION), GPIO.output(LOW), return True
SprinklerOff ==
    /\ pc = "sprinkler_hold"
    /\ \E out \in GpioOutcomes :
          IF out = "ok"
          THEN /\ sprinkler_pin' = "LOW"
               /\ sprinkler_result' = "True"
               /\ pc' = "sprinkler_ret"
          ELSE /\ pc' = "sprinkler_except"
               /\ UNCHANGED <<sprinkler_pin, sprinkler_result>>
    /\ UNCHANGED <<hardware, defense_stat, sweep_direction_forward, disk, sweep_locals,
                   analysis_locals, success, should_run_sprinkler, obs>>

\* except Exception: GPIO.output(LOW) under try/pass, return False
SprinklerExcept ==
    /\ pc = "sprinkler_except"
    /\ \E out \in GpioOutcomes :
          sprinkler_pin' = IF out = "ok" THEN "LOW" ELSE sprinkler_pin
    /\ sprinkler_result' = "False"
    /\ pc' = "sprinkler_ret"
    /\ UNCHANGED <<hardware, defense_stat, sweep_direction_forward, disk, sweep_locals,
                   analysis_locals, success, should_run_sprinkler, obs>>

\* the result is logged, then the statistics; next iteration
SprinklerReturn ==
    /\ pc = "sprinkler_ret"
    /\ pc' = LoopEntry
    /\ UNCHANGED <<hardware, defense_stat, sweep_direction_forward, sprinkler_pin, disk,
                   sweep_locals, analysis_locals, loop_locals, obs>>

\* ------------------------------------------------- signal_handler / cleanup
\* level of the output after one call of cleanup(): when gpio_available,
\* GPIO.output(LOW) and GPIO.cleanup() run in one try whose handler only logs
CleanupPin(pin, out) == IF gpio_available /\ out = "ok" THEN "LOW" ELSE pin

CleanupStats_reset(stat) ==
    [total_checks |-> stat.total_checks, total_threats |-> 0,
     total_sprinkler_activation |-> 0]

\* cleanup() has no statement on defense_stat: GPIO.output, GPIO.cleanup and
\* camera.stop are all it calls
CleanupStats(stat) == stat

\* the second cleanup(), from atexit: once GPIO.cleanup() has released the
\* channel, GPIO.output on it raises
AtexitOutcomes(first) == IF first = "ok" THEN {"raises"} ELSE GpioOutcomes

\* GPIO calls that follow a handler cleanup() which released the channels:
\* pwm.stop() in the finally of an interrupted live sweep, then
\* GPIO.output(SPRINKLER_PIN, LOW) in the cleanup() that atexit runs
LateGpioCalls(first, channel) ==
    IF gpio_available /\ first = "ok"
    THEN (IF channel \in {"created", "started"} THEN 1 ELSE 0) + 1
    ELSE 0

\* SIGINT / SIGTERM at any point of the loop: signal_handler calls cleanup()
\* and sys.exit(0); SystemExit passes every except Exception, the finally of
\* an interrupted live sweep stops the PWM channel, and the atexit hook
\* calls cleanup() a second time. The process state is gone afterwards.
Shutdown ==
    /\ pc \notin {"exited", "exit"}
    /\ \E first \in GpioOutcomes : \E second \in AtexitOutcomes(first) :
          /\ sprinkler_pin' = CleanupPin(CleanupPin(sprinkler_pin, first), second)
          /\ obs' = [NoObs EXCEPT
                       !.sleeps = obs.sleeps,
                       !.threat_cycles = obs.threat_cycles,
                       !.activations_before = defense_stat.total_sprinkler_activation,
                       !.threats_before = defense_stat.total_threats,
                       !.late_gpio = LateGpioCalls(first, pwm)]
    /\ pwm' = StopPwm(pwm)
    /\ camera_running' = FALSE
    /\ pc' = "exited"
    /\ captured_files' = <<>>
    /\ idx' = 0
    /\ sweep_success' = FALSE
    /\ fi' = 1
    /\ any_threat' = FALSE
    /\ all_success' = TRUE
    /\ response_with_threat' = None
    /\ success' = FALSE
    /\ should_run_sprinkler' = FALSE
    /\ sprinkler_result' = "none"
    /\ defense_stat' = CleanupStats(defense_stat)
    /\ UNCHANGED <<hardware, sweep_direction_forward, disk>>

\* ------------------------------------------- harvest.py: needle_servo:angle
\* what the event may carry: no angle, or an angle in degrees
NeedleInputs ==
    {[given |-> FALSE, angle |-> 0]}
    \cup {[given |-> TRUE, angle |-> 15 * k] : k \in (0 - MaxAngleSteps)..MaxAngleSteps}

\* if angle < -180 or angle > 180: error
AngleRejected(angle) == angle < 0 - 180 \/ angle > 180

\* round(angle / 90, 2), in hundredths of a second (10 * angle / 9 never ends
\* in .5, so no tie)
SleepHundredths(angle) == (20 * angle + 9) \div 18

\* time.sleep raises ValueError for a negative length
SleepRaises(hundredths) == hundredths < 0

\* the whole handler: validation, the servo movement, then the state and the
\* response; an exception anywhere is answered with an error event
NeedleServoAngle ==
    /\ \E data \in NeedleInputs :
          /\ needle_request' = data
          /\ IF ~data.given
             THEN /\ needle_response' = "error"
                  /\ UNCHANGED needle_servo_state
             ELSE IF AngleRejected(data.angle)
             THEN /\ needle_response' = "error"
                  /\ UNCHANGED needle_servo_state
             ELSE IF SleepRaises(SleepHundredths(data.angle))
             THEN /\ needle_response' = "error"
                  /\ UNCHANGED needle_servo_state
             ELSE /\ needle_servo_state' = [angle |-> data.angle, mode |-> "positioned"]
                  /\ needle_response' = "success"
    /\ UNCHANGED <<defense, video>>

\* ------------------------------------------------- harvest.py: camera:video
\* entry of the handler up to the test of camera_state['recording'], which is
\* read without state_lock
VideoRequest(h) ==
    /\ handlers[h].pc = "idle"
    /\ \E action \in {"start", "stop", "other"} :
          IF ~camera_available \/ action = "other"
          THEN /\ video_obs' = [video_obs EXCEPT !.reply = "error"]
               /\ UNCHANGED handlers
          ELSE IF action = "start"
          THEN IF camera_state.recording
               THEN /\ video_obs' = [video_obs EXCEPT !.reply = "error"]
                    /\ UNCHANGED handlers
               ELSE /\ video_obs.starts < MaxRecordings
                    /\ video_obs' = [video_obs EXCEPT !.starts = @ + 1]
                    /\ handlers' = [handlers EXCEPT ![h].pc = "start_call"]
          ELSE IF ~camera_state.recording
               THEN /\ video_obs' = [video_obs EXCEPT !.reply = "error"]
                    /\ UNCHANGED handlers
               ELSE /\ handlers' = [handlers EXCEPT ![h].pc = "stop_call"]
                    /\ UNCHANGED video_obs
    /\ UNCHANGED <<defense, needle, camera_state, recorder, timers>>

\* what the camera does with start_recording while it records, and with
\* stop_recording while it does not: it raises, or it carries the call out
MisuseOutcomes == {"raises", "done"}

\* camera.start_recording(filepath)
VideoStartCall(h) ==
    /\ handlers[h].pc = "start_call"
    /\ \E out \in (IF recorder.active THEN MisuseOutcomes ELSE {"done"}) :
          IF out = "raises"
          THEN /\ handlers' = [handlers EXCEPT ![h].pc = "idle"]
               /\ video_obs' = [video_obs EXCEPT !.double_start = TRUE, !.reply = "error"]
               /\ UNCHANGED recorder
          ELSE /\ recorder' = [active |-> TRUE, session |-> recorder.session + 1]
               /\ handlers' = [handlers EXCEPT ![h] = [pc |-> "start_set",
                                                      rec |-> recorder.session + 1]]
               /\ video_obs' = [video_obs EXCEPT !.double_start = @ \/ recorder.active]
    /\ UNCHANGED <<defense, needle, camera_state, timers>>

\* with state_lock: camera_state['recording'] = True; then the auto-stop
\* thread is started if a duration was given, and the response emitted
VideoStartSet(h) ==
    /\ handlers[h].pc = "start_set"
    /\ camera_state' = [camera_state EXCEPT !.recording = TRUE]
    /\ \E timed \in BOOLEAN :
          timers' = IF timed THEN [timers EXCEPT ![handlers[h].rec] = "sleeping"]
                             ELSE timers
    /\ handlers' = [handlers EXCEPT ![h] = [pc |-> "idle", rec |-> 0]]
    /\ video_obs' = [video_obs EXCEPT !.reply = "started"]
    /\ UNCHANGED <<defense, needle, recorder>>

\* camera.stop_recording() of the stop branch
VideoStopCall(h) ==
    /\ handlers[h].pc = "stop_call"
    /\ \E out \in (IF recorder.active THEN {"done"} ELSE MisuseOutcomes) :
          IF out = "raises"
          THEN /\ handlers' = [handlers EXCEPT ![h].pc = "idle"]
               /\ video_obs' = [video_obs EXCEPT !.stop_idle = TRUE, !.reply = "error"]
               /\ UNCHANGED recorder
          ELSE /\ recorder' = [recorder EXCEPT !.active = FALSE]
               /\ handlers' = [handlers EXCEPT ![h].pc = "stop_set"]
               /\ video_obs' = [video_obs EXCEPT !.stop_idle = @ \/ ~recorder.active]
    /\ UNCHANGED <<defense, needle, camera_state, timers>>

\* with state_lock: camera_state['recording'] = False; the response
VideoStopSet(h) ==
    /\ handlers[h].pc = "stop_set"
    /\ camera_state' = [camera_state EXCEPT !.recording = FALSE]
    /\ handlers' = [handlers EXCEPT ![h].pc = "idle"]
    /\ video_obs' = [video_obs EXCEPT !.reply = "stopped"]
    /\ UNCHANGED <<defense, needle, recorder, timers>>

\* auto_stop_video of recording r: time.sleep(duration) returns and
\* camera_state['recording'] is tested, whichever recording set it
TimerFire(r) ==
    /\ timers[r] = "sleeping"
    /\ timers' = [timers EXCEPT ![r] = IF camera_state.recording THEN "stop_call"
                                                                 ELSE "none"]
    /\ UNCHANGED <<defense, needle, camera_state, recorder, handlers, video_obs>>

\* camera.stop_recording() of the timer thread; an exception ends the thread
TimerStopCall(r) ==
    /\ timers[r] = "stop_call"
    /\ \E out \in (IF recorder.active THEN {"done"} ELSE MisuseOutcomes) :
          IF out = "raises"
          THEN /\ timers' = [timers EXCEPT ![r] = "none"]
               /\ video_obs' = [video_obs EXCEPT !.stop_idle = TRUE]
               /\ UNCHANGED recorder
          ELSE /\ recorder' = [recorder EXCEPT !.active = FALSE]
               /\ timers' = [timers EXCEPT ![r] = "stop_set"]
               /\ video_obs' = [video_obs EXCEPT
                     !.stop_idle = @ \/ ~recorder.active,
                     !.wrong_stop = @ \/ (recorder.active /\ recorder.session # r)]
    /\ UNCHANGED <<defense, needle, camera_state, handlers>>

\* with state_lock: camera_state['recording'] = False; the thread ends
TimerStopSet(r) ==
    /\ timers[r] = "stop_set"
    /\ camera_state' = [camera_state EXCEPT !.recording = FALSE]
    /\ timers' = [timers EXCEPT ![r] = "none"]
    /\ UNCHANGED <<defense, needle, recorder, handlers, video_obs>>

\* ----------------------------------------------------------- specifications
Next ==
    \/ IntervalSleep
    \/ StartCycle
    \/ SweepFallback
    \/ FallbackCopy
    \/ SweepUnavailable
    \/ LiveSetup
    \/ LiveStep
    \/ LiveFinish
    \/ LiveExcept
    \/ SweepReturn
    \/ AnalyzeSample
    \/ AnalyzeDone
    \/ LookupContext
    \/ ComposeAlert
    \/ ToggleDirection
    \/ LoopCheck
    \/ LoopExcept
    \/ SprinklerOn
    \/ SprinklerOff
    \/ SprinklerExcept
    \/ SprinklerReturn
    \/ Shutdown

\* the monitoring loop of the shipped program
Spec == Init /\ [][Next]_vars

\* a step of the loop thread itself: anything but the arrival of a signal
LoopStep == Next /\ pc' # "exited"

\* the loop thread keeps running while it has a step to take; a blocked call
\* has none, and no signal is ever bound to arrive
SpecLive == Spec /\ WF_vars(LoopStep)

\* sweep configurations: min, max and sample count as configuration inputs
Cfgs ==
    {c \in [min : 0..CfgMaxMin, max : 0..CfgMaxAngle, n : 1..CfgMaxPoints] : c.min < c.max}
    \cup {[ShippedCfg EXCEPT !.n = k] : k \in 1..CfgMaxPoints}
    \cup {ShippedCfg}

InitCfg ==
    /\ pc = "sweep"
    /\ cfg \in Cfgs
    /\ camera_available = TRUE
    /\ gpio_available = TRUE
    /\ sprinkler_available = TRUE
    /\ camera_servo_available = TRUE
    /\ fallback_library = "stocked"
    /\ defense_stat = [total_checks |-> 1, total_threats |-> 0,
                       total_sprinkler_activation |-> 0]
    /\ sweep_direction_forward \in BOOLEAN
    /\ sprinkler_pin = "LOW"
    /\ disk = {}
    /\ FrameInit
    /\ obs = [NoObs EXCEPT !.sleeps = 1]
    /\ watch = FALSE
    /\ HarvestInit

NextCfg ==
    \/ LiveSetup
    \/ LiveStep
    \/ LiveFinish
    \/ LiveExcept

\* one live sweep of sweep_servo_and_capture under every configuration
SpecCfg == InitCfg /\ [][NextCfg]_vars

\* the device-control server with nothing else running: harvest.py has its
\* own camera_available, set by its own import of the camera library
InitHarvest ==
    /\ pc = "exited"
    /\ cfg = ShippedCfg
    /\ camera_available \in BOOLEAN
    /\ gpio_available = TRUE
    /\ sprinkler_available = TRUE
    /\ camera_servo_available = TRUE
    /\ fallback_library = "stocked"
    /\ defense_stat = [total_checks |-> 0, total_threats |-> 0,
                       total_sprinkler_activation |-> 0]
    /\ sweep_direction_forward = TRUE
    /\ sprinkler_pin = "LOW"
    /\ disk = {}
    /\ LocalsInit
    /\ watch = FALSE
    /\ HarvestInit

NextNeedle == NeedleServoAngle

\* needle_servo:angle events, one after the other
SpecNeedle == InitHarvest /\ [][NextNeedle]_vars

NextVideo ==
    \/ \E h \in 1..MaxHandlers : VideoRequest(h)
    \/ \E h \in 1..MaxHandlers : VideoStartCall(h)
    \/ \E h \in 1..MaxHandlers : VideoStartSet(h)
    \/ \E h \in 1..MaxHandlers : VideoStopCall(h)
    \/ \E h \in 1..MaxHandlers : VideoStopSet(h)
    \/ \E r \in 1..MaxRecordings : TimerFire(r)
    \/ \E r \in 1..MaxRecordings : TimerStopCall(r)
    \/ \E r \in 1..MaxRecordings : TimerStopSet(r)

\* camera:video events handled by concurrent threads, and the auto-stop
\* threads they start
SpecVideo == InitHarvest /\ [][NextVideo]_vars

\* entry of analyze_captured_images in the first cycle, after a fallback
\* sweep has copied its five images
InitAnalysis ==
    /\ pc = "analyze"
    /\ cfg = ShippedCfg
    /\ camera_available = FALSE
    /\ gpio_available = TRUE
    /\ sprinkler_available = TRUE
    /\ camera_servo_available = TRUE
    /\ fallback_library = "stocked"
    /\ defense_stat = [total_checks |-> 1, total_threats |-> 0,
                       total_sprinkler_activation |-> 0]
    /\ sweep_direction_forward = TRUE
    /\ sprinkler_pin = "LOW"
    /\ LET angles == AnglesToCapture(ShippedCfg, TRUE)
       IN /\ captured_files = [i \in 1..Len(angles) |-> <<1, angles[i]>>]
          /\ disk = {<<1, angles[i]>> : i \in 1..Len(angles)}
          /\ idx = Len(angles)
    /\ pwm = "none"
    /\ camera_running = FALSE
    /\ sweep_success = TRUE
    /\ fi = 1
    /\ any_threat = FALSE
    /\ all_success = TRUE
    /\ response_with_threat = None
    /\ success = FALSE
    /\ should_run_sprinkler = FALSE
    /\ sprinkler_result = "none"
    /\ obs = [NoObs EXCEPT !.path = "fallback", !.capture_ok = TRUE,
                            !.sweep_returned = TRUE, !.sleeps = 1]
    /\ watch = TRUE
    /\ HarvestInit

NextAnalysis ==
    \/ AnalyzeSample
    \/ AnalyzeDone

\* the upload loop of one call of analyze_captured_images, followed sample
\* by sample
SpecAnalysis == InitAnalysis /\ [][NextAnalysis]_vars

\* the same call at the alert block, when sample k alone came back positive,
\* with confidence c
InitAlert ==
    /\ pc = "compose"
    /\ cfg = ShippedCfg
    /\ camera_available = FALSE
    /\ gpio_available = TRUE
    /\ sprinkler_available = TRUE
    /\ camera_servo_available = TRUE
    /\ fallback_library = "stocked"
    /\ defense_stat = [total_checks |-> 1, total_threats |-> 1,
                       total_sprinkler_activation |-> 0]
    /\ sweep_direction_forward = TRUE
    /\ sprinkler_pin = "LOW"
    /\ disk = {}
    /\ LET angles == AnglesToCapture(ShippedCfg, TRUE)
       IN /\ captured_files = [i \in 1..Len(angles) |-> <<1, angles[i]>>]
          /\ idx = Len(angles)
          /\ fi = Len(angles) + 1
          /\ \E k \in 1..Len(angles), c \in 0..MaxConf :
                /\ response_with_threat = [confidence |-> c, sample |-> k]
                /\ obs = [NoObs EXCEPT !.path = "fallback", !.capture_ok = TRUE,
                                       !.sweep_returned = TRUE, !.sleeps = 1,
                                       !.threat_cycles = 1,
                                       !.samples = Len(angles),
                                       !.uploads = Len(angles), !.positives = 1,
                                       !.pos_max = c, !.first_max = k,
                                       !.analysed = TRUE]
    /\ pwm = "none"
    /\ camera_running = FALSE
    /\ sweep_success = TRUE
    /\ any_threat = TRUE
    /\ all_success = TRUE
    /\ success = FALSE
    /\ should_run_sprinkler = FALSE
    /\ sprinkler_result = "none"
    /\ watch = TRUE
    /\ HarvestInit

NextAlert ==
    \/ LookupContext
    \/ ComposeAlert

\* the alert block for every outcome of the three lookups and every shape of
\* the selected verdict
SpecAlert == InitAlert /\ [][NextAlert]_vars


\* ------------------------------------------------------------------ claims
Angle(f) == f[2]

\* C1: when at least one sample of a sweep yields a positive verdict, the
\* verdict the alert is built from carries the greatest confidence among the
\* positive verdicts of that sweep.
C1_MaxConfidenceSelected ==
    /\ (obs.analysed /\ obs.positives >= 1) =>
          /\ response_with_threat # None
          /\ response_with_threat.confidence = obs.pos_max
    /\ obs.alert_confidence >= 0 => obs.alert_confidence = obs.pos_max

C1_Witness ==
    /\ pc = "analyze_ret"
    /\ obs.positives >= 2
    /\ obs.pos_low
    /\ obs.alert_confidence = MaxConf

\* C11: an exception raised inside a cycle never ends the loop: it is caught at
\* the loop boundary, the handler goes back to the interval sleep, and the
\* next cycle can start.
C11_ExceptionNeverEndsLoop ==
    /\ pc # "exit"
    /\ pc = "loop_except" => ENABLED LoopExcept
    /\ (pc = "sleep" /\ (obs.alert_error \/ obs.device_fault)
          /\ defense_stat.total_checks < MaxChecks) => ENABLED IntervalSleep

C11_Witness ==
    /\ pc = "sweep"
    /\ defense_stat.total_checks = 2
    /\ ~camera_available
    /\ <<1, SERVO_MIN_ANGLE>> \in disk

\* C12: whenever the process has exited on a shutdown signal, the sprinkler
\* output is at the off level.
C12_SprinklerOffAtExit ==
    pc = "exited" => sprinkler_pin = "LOW"

\* C13: in a cycle in which no sample yields a positive verdict no alert is
\* posted, activate_sprinkler is not called, and total_threats and
\* total_sprinkler_activation keep the values they had when the cycle began.
C13_NoPositiveNoReaction ==
    obs.positives = 0 =>
        /\ obs.alert_posts = 0
        /\ obs.sprinkler_calls = 0
        /\ pc \notin {"compose", "event", "sprinkler", "sprinkler_hold", "sprinkler_except",
                      "sprinkler_ret"}
        /\ defense_stat.total_threats = obs.threats_before
        /\ defense_stat.total_sprinkler_activation = obs.activations_before

C13_Witness ==
    /\ pc = "sleep"
    /\ obs.analysed
    /\ obs.uploads = NUM_CAPTURE_POINTS
    /\ obs.positives = 0
    /\ all_success
    /\ obs.toggles = 1
    /\ defense_stat.total_checks = 1

\* C14: a failure of the alert step for an incident (a raising context
\* lookup, a transport error or a non-success status of the alert POST) does
\* not keep the sprinkler from being run for that incident in the same cycle.
C14_AlertFailureStillActuates ==
    (pc = "sleep" /\ obs.positives >= 1 /\ all_success /\ obs.alert_error
        /\ obs.alert_raised_at \in {"lookup", "post"})
        => obs.sprinkler_calls >= 1

\* C15: with an incident the alert is posted whichever of the sensor, hive
\* and farm records the lookups miss, and the payload carries sensorName,
\* beehiveName and farmName exactly for the records that were found.
C15_AlertWithPartialContext ==
    (pc = "analyze_ret" /\ response_with_threat # None) =>
        /\ obs.alert_posts = 1
        /\ obs.event # None
        /\ "sensorName" \in obs.event.names <=> "sensor" \in obs.found
        /\ "beehiveName" \in obs.event.names <=> "hive" \in obs.found
        /\ "farmName" \in obs.event.names <=> "farm" \in obs.found

C15_Witness ==
    /\ pc = "analyze_ret"
    /\ obs.alert_posts = 1
    /\ obs.found = {"sensor", "hive"}
    /\ obs.event.names = {"sensorName", "beehiveName"}

\* C19: when the selected positive verdict omits the predator label, the
\* detection-method description or the image id, the alert is still composed
\* and posted and the cycle goes on to the sprinkler.
C19_OmittedFieldStillPosted ==
    (pc = "sleep" /\ obs.positives >= 1 /\ all_success
        /\ obs.alert_raised_at \notin {"lookup", "post"})
        => (obs.alert_posts = 1 /\ obs.sprinkler_calls >= 1)

\* C16: a response whose run_sprinkler is the boolean true is a positive
\* verdict exactly like "Y" (the threat is flagged and counted), and one
\* whose run_sprinkler is the boolean false is an analysed negative verdict
\* exactly like "N": neither marks the upload as failed.
C16_BooleanVerdicts ==
    [][(pc = "analyze" /\ fi' = fi + 1) =>
          /\ obs'.run_sprinkler = "bTrue" =>
                /\ any_threat'
                /\ defense_stat'.total_threats = defense_stat.total_threats + 1
                /\ all_success' = all_success
          /\ obs'.run_sprinkler = "bFalse" =>
                /\ any_threat' = any_threat
                /\ all_success' = all_success]_vars

\* C17: with the sprinkler hardware unavailable activate_sprinkler returns
\* False straight away: it raises nothing, makes no GPIO call, and leaves the
\* output and the three statistics counters as they were.
C17_UnavailableSprinklerReturnsFalse ==
    [][(pc = "sprinkler" /\ ~sprinkler_available /\ pc' # "exited") =>
          /\ pc' = "sprinkler_ret"
          /\ sprinkler_result' = "False"
          /\ sprinkler_pin' = sprinkler_pin
          /\ defense_stat' = defense_stat]_vars

C17_Witness ==
    /\ pc = "sprinkler_ret"
    /\ ~sprinkler_available
    /\ sprinkler_result = "False"
    /\ obs.sprinkler_calls = 1
    /\ defense_stat.total_sprinkler_activation = 0

\* C18: among several positive verdicts of one sweep with the same maximal
\* confidence the incident is the one analysed first, and the current best is
\* replaced only by a verdict of strictly greater confidence.
C18_TiesKeepFirstSeen ==
    /\ [](response_with_threat # None =>
             /\ response_with_threat.confidence = obs.pos_max
             /\ response_with_threat.sample = obs.first_max)
    /\ [][(response_with_threat # None /\ response_with_threat' # None
              /\ response_with_threat' # response_with_threat)
            => response_with_threat'.confidence > response_with_threat.confidence]_vars

C18_Witness ==
    /\ pc = "compose"
    /\ obs.positives = 3
    /\ ~obs.pos_low
    /\ response_with_threat # None
    /\ response_with_threat.sample = 2
    /\ response_with_threat.confidence = MaxConf

\* C20: when a monitoring cycle is over, whether its sweep succeeded, failed
\* before the first capture or failed part-way after some captures, no sample
\* file created in that cycle is left on disk.
C20_NoSampleOutlivesCycle ==
    pc = "sleep" => \A f \in disk : f[1] # defense_stat.total_checks

\* C21: every cycle that starts finishes, the loop reaching the next interval
\* sleep, even when a remote endpoint never answers: no upload and no alert
\* POST blocks the loop thread forever.
C21_CycleAlwaysFinishes ==
    (pc = "sweep") ~> (pc \in {"sleep", "exited"})

\* C22: once the cleanup run by the signal handler has forced the sprinkler
\* off and released the GPIO channels, nothing that runs afterwards (the
\* interrupted activate_sprinkler, a sweep's finally, an exception handler,
\* the exit hook) makes another GPIO call.
C22_NoGpioAfterRelease ==
    pc = "exited" => obs.late_gpio = 0

\* C23: for every sweep configuration the backward sweep has the same set of
\* capture angles as the forward sweep, in the live sweep (angles_to_capture)
\* and in the fallback sweep (simulated_angle); only the order differs.
C23_SameCaptureAnglesBothWays ==
    SWEEP_STEP(cfg) > 0 =>
        /\ {AnglesToCapture(cfg, TRUE)[i] : i \in 1..Len(AnglesToCapture(cfg, TRUE))}
              = {AnglesToCapture(cfg, FALSE)[i] : i \in 1..Len(AnglesToCapture(cfg, FALSE))}
        /\ {SimulatedAngle(cfg, TRUE, i) : i \in 0..(cfg.n - 1)}
              = {SimulatedAngle(cfg, FALSE, i) : i \in 0..(cfg.n - 1)}

\* C24: in a cycle with k positive verdicts total_threats grows by exactly
\* k: every positive verdict is counted, not only the one kept for the
\* incident.
C24_EveryPositiveCounted ==
    defense_stat.total_threats = obs.threats_before + obs.positives

C24_Witness ==
    /\ pc = "sleep"
    /\ obs.positives = 3
    /\ obs.pos_low
    /\ obs.threats_before = 2
    /\ defense_stat.total_threats = 5

\* C25: a classifier response that cannot be parsed as JSON makes all_success
\* false for the call and contributes no verdict: any_threat, the selected
\* verdict and the counters are left as they were
C25_UnparseableIsFailedUpload ==
    [][obs'.kind = "unparseable" /\ obs'.uploads = obs.uploads + 1 =>
          /\ all_success' = FALSE
          /\ any_threat' = any_threat
          /\ response_with_threat' = response_with_threat
          /\ defense_stat' = defense_stat
          /\ obs'.positives = obs.positives]_vars

C25_Witness ==
    /\ obs.kind = "unparseable"
    /\ ~all_success
    /\ any_threat
    /\ obs.positives = 1
    /\ ~obs.fail_seen

\* C26: in a cycle whose sweep+capture came back failed (success false or no
\* files) no sample is uploaded, no alert is posted and the deterrent is not
\* activated, while total_checks has been incremented for the cycle
C26_FailedSweepSkipsCycle ==
    obs.sweep_returned /\ ~obs.capture_ok =>
        /\ obs.uploads = 0
        /\ obs.alert_posts = 0
        /\ obs.sprinkler_calls = 0
        /\ defense_stat.total_sprinkler_activation = obs.activations_before
        /\ defense_stat.total_checks = obs.checks_before + 1

C26_Witness ==
    /\ pc = "sleep"
    /\ obs.sweep_returned
    /\ ~obs.capture_ok
    /\ captured_files # <<>>
    /\ obs.checks_before = 1
    /\ defense_stat.total_checks = 2

\* C27: the alert POST is made at most once in a cycle, only when the upload
\* loop has gone through every captured file, and before any call of
\* activate_sprinkler in that cycle; whatever the POST comes back with, no
\* second POST follows in the cycle
C27_OneAlertAfterAnalysisBeforeSprinkler ==
    [][obs'.alert_posts > obs.alert_posts =>
          /\ obs.alert_posts = 0
          /\ obs'.alert_posts = 1
          /\ obs.samples = Len(captured_files)
          /\ obs.sprinkler_calls = 0
          /\ defense_stat.total_sprinkler_activation = obs.activations_before]_vars

C27_Witness ==
    /\ pc = "sleep"
    /\ obs.alert_posts = 1
    /\ obs.samples = NUM_CAPTURE_POINTS
    /\ obs.sprinkler_calls = 1
    /\ obs.positives = 2

\* C28: when sweep_servo_and_capture returns from a live sweep, by the normal
\* return or through its except clause, the camera session that the sweep
\* started is no longer running
C28_CameraStoppedOnEveryExit ==
    (pc = "sweep_ret" /\ obs.path = "live") => ~camera_running

\* C29: no step of the loop, in a cycle that succeeds, fails or is aborted by
\* an exception, lowers or resets total_checks, total_threats or
\* total_sprinkler_activation; total_checks grows by exactly one on the step
\* that starts a cycle and on no other step
C29_CountersOnlyGrow ==
    [][/\ defense_stat'.total_threats >= defense_stat.total_threats
       /\ defense_stat'.total_sprinkler_activation >= defense_stat.total_sprinkler_activation
       /\ defense_stat'.total_checks =
             defense_stat.total_checks + (IF pc = "begin" /\ pc' = "sweep" THEN 1 ELSE 0)]_vars

C29_Witness ==
    /\ pc = "sleep"
    /\ obs.alert_error
    /\ defense_stat.total_checks = 2
    /\ obs.threats_before >= 1
    /\ defense_stat.total_threats > obs.threats_before
    /\ defense_stat.total_sprinkler_activation = 1

\* C30: until the first interval sleep has elapsed nothing is captured,
\* uploaded, posted or actuated and no cycle is counted; every cycle that has
\* started was preceded by its own interval sleep, so the sleeps that have
\* elapsed are as many as the cycles started while a cycle runs
C30_SleepBeforeEveryCycle ==
    /\ obs.sleeps = 0 =>
          /\ pc \in {"sleep", "exited"}
          /\ defense_stat.total_checks = 0
          /\ obs.path = "none"
          /\ obs.uploads = 0
          /\ obs.alert_posts = 0
          /\ obs.sprinkler_calls = 0
          /\ disk = {}
    /\ defense_stat.total_checks <= obs.sleeps
    /\ pc \notin {"sleep", "begin", "exited"} => obs.sleeps = defense_stat.total_checks

C30_Witness ==
    /\ pc = "sweep"
    /\ obs.sleeps = 2
    /\ defense_stat.total_checks = 2
    /\ defense_stat.total_sprinkler_activation = 1

\* C31: the shutdown path (cleanup() from the signal handler and again from
\* the exit hook) leaves sweep_direction_forward and the three counters of
\* defense_stat as they were; what it changes is the sprinkler output, the
\* PWM channel and the camera session
C31_CleanupKeepsFlagAndCounters ==
    [][pc # "exited" /\ pc' = "exited" =>
          /\ sweep_direction_forward' = sweep_direction_forward
          /\ defense_stat' = defense_stat
          /\ disk' = disk
          /\ sprinkler_pin' \in {sprinkler_pin, "LOW"}
          /\ camera_running' = FALSE]_vars

C31_Witness ==
    /\ pc = "exited"
    /\ ~sweep_direction_forward
    /\ defense_stat.total_checks = 2
    /\ defense_stat.total_threats >= 2
    /\ defense_stat.total_sprinkler_activation = 1
    /\ sprinkler_pin = "LOW"

\* C32: the cached availability flags agree with what startup found: the
\* sprinkler and the sweep servo are recorded as available only if GPIO was
\* initialised
C32_AvailabilityFollowsGpio ==
    /\ sprinkler_available => gpio_available
    /\ camera_servo_available => gpio_available

\* C33: the activations counted never exceed the cycles in which a positive
\* verdict was seen, which never exceed the cycles counted, and
\* activate_sprinkler is called at most once in a cycle
C33_ActivationsBoundedByThreatCycles ==
    /\ defense_stat.total_sprinkler_activation <= obs.threat_cycles
    /\ obs.threat_cycles <= defense_stat.total_checks
    /\ obs.sprinkler_calls <= 1
    /\ defense_stat.total_sprinkler_activation <= obs.activations_before + obs.sprinkler_calls

C33_Witness ==
    /\ pc = "sleep"
    /\ defense_stat.total_checks = 2
    /\ obs.threat_cycles = 2
    /\ defense_stat.total_sprinkler_activation = 1
    /\ obs.sprinkler_calls = 0
    /\ obs.positives >= 1

\* C37: a PWM channel that was created is running only while the live sweep
\* is inside its try block: once sweep_servo_and_capture has been left, by
\* return, through its except clause or by the exit of the process, the
\* channel has been stopped
C37_PwmStoppedOnEveryExit ==
    pwm \in {"created", "started"} => pc \in {"live_loop", "live_except"}

C37_Witness ==
    /\ pc = "sweep_ret"
    /\ pwm = "stopped"
    /\ ~sweep_success
    /\ obs.device_fault
    /\ captured_files # <<>>

\* C36: needle_servo:angle answers an angle in [-180, 180] with a success
\* response and records it in needle_servo_state with mode positioned; it
\* answers an angle outside the range, or no angle, with an error and leaves
\* needle_servo_state as it was
C36_NeedleAcceptsWholeRange ==
    [][needle' # needle =>
          IF needle_request'.given /\ needle_request'.angle >= 0 - 180
                                  /\ needle_request'.angle <= 180
          THEN /\ needle_response' = "success"
               /\ needle_servo_state' = [angle |-> needle_request'.angle,
                                         mode |-> "positioned"]
          ELSE /\ needle_response' = "error"
               /\ needle_servo_state' = needle_servo_state]_vars

\* C34: an auto-stop timer stops only the recording it was started for: it
\* never calls stop_recording on a recording begun by a later start request
C34_TimerStopsOnlyItsRecording ==
    ~video_obs.wrong_stop

\* C35: start_recording and stop_recording alternate on the camera (no start
\* while it records, no stop while it does not), and once every handler and
\* timer thread is outside its call-and-update section
\* camera_state['recording'] says whether the camera records
C35_StartStopAlternate ==
    /\ ~video_obs.double_start
    /\ ~video_obs.stop_idle
    /\ ((\A h \in 1..MaxHandlers : handlers[h].pc = "idle")
          /\ (\A r \in 1..MaxRecordings : timers[r] \in {"none", "sleeping"}))
         => camera_state.recording = recorder.active

\* C2: a cycle in which a sample yielded a positive verdict calls
\* activate_sprinkler in that cycle, also when another upload of the sweep
\* failed.
C2_IncidentActivatesSprinkler ==
    (pc = "sleep" /\ obs.positives >= 1) => obs.sprinkler_calls >= 1

\* C3: after a transport failure or an error status for one sample the sweep
\* goes on: every file is still uploaded, a positive verdict that follows the
\* failure is part of the reduction, and all_success ends false.
C3_FailedUploadDoesNotAbort ==
    (obs.analysed /\ obs.fail_seen) =>
        /\ obs.uploads = Len(captured_files)
        /\ ~all_success
        /\ obs.pos_after_fail >= 0 =>
              /\ any_threat
              /\ response_with_threat # None
              /\ response_with_threat.confidence >= obs.pos_after_fail

C3_Witness ==
    /\ obs.analysed
    /\ obs.fail_seen
    /\ obs.pos_after_fail = MaxConf
    /\ obs.uploads = NUM_CAPTURE_POINTS
    /\ response_with_threat # None

\* C4: the direction flag is flipped exactly once in a cycle whose
\* sweep+capture succeeded, whatever analysis and alert composition do, and
\* not at all in a cycle whose sweep+capture failed; the first sweep is
\* forward.
C4_ToggleOncePerCapturedCycle ==
    /\ pc = "sleep" => obs.toggles = (IF obs.capture_ok THEN 1 ELSE 0)
    /\ defense_stat.total_checks = 0 => sweep_direction_forward

\* C5: once the upload loop has run over a sweep, none of the files handed to
\* it is left on disk, whatever each upload came back with.
C5_NoSampleFileLeft ==
    obs.analysed => \A i \in 1..Len(captured_files) : captured_files[i] \notin disk

C5_Witness ==
    /\ obs.analysed
    /\ ~all_success
    /\ obs.positives >= 1
    /\ Len(captured_files) = NUM_CAPTURE_POINTS
    /\ disk = {}

\* C6: for every configuration (min, max, count >= 1) and both directions a
\* live sweep that no device call interrupts captures exactly count images,
\* at strictly increasing angles forward and strictly decreasing backward.
C6_SampleCountAndOrder ==
    (pc = "sweep_ret" /\ obs.path = "live" /\ ~obs.device_fault) =>
        /\ Len(captured_files) = cfg.n
        /\ \A i \in 1..(Len(captured_files) - 1) :
              IF sweep_direction_forward
              THEN Angle(captured_files[i]) < Angle(captured_files[i + 1])
              ELSE Angle(captured_files[i]) > Angle(captured_files[i + 1])

C9_SprinklerOffOnReturn ==
    pc = "sprinkler_ret" => sprinkler_pin = "LOW"

\* C10: total_sprinkler_activation grows in a cycle only if
\* activate_sprinkler returned True in that cycle.
C10_CountOnlySuccessfulActivations ==
    (pc \in {"sprinkler_ret", "sleep"}
        /\ defense_stat.total_sprinkler_activation > obs.activations_before) =>
        sprinkler_result = "True"

====
